---- MODULE Spec2Model ----
(***************************************************************************)
(* Model of the isolated ADW phase scripts (src/adws/adw_*_iso.py): the    *)
(* persisted run state, the five phase scripts as processes, the port      *)
(* allocation and the review resolution loop.                              *)
(*                                                                         *)
(* The package adw_modules (ADWState, validate_worktree, find_spec_file,   *)
(* create_worktree, find_next_available_ports) is imported by the scripts  *)
(* but is not part of the sources at hand: those operators are written     *)
(* from the design document (sections 3, 4.1, 4.2, 4.4).                   *)
(***************************************************************************)
EXTENDS Naturals, Sequences, FiniteSets

VARIABLES
    store,      \* run id -> persisted run state: <<>> (absent) or <<record>>
    wt,         \* run id -> TRUE when the run's worktree directory is on disk
    proc,       \* process slot -> the phase script running in it
    invoked     \* number of phase-script invocations so far

vars == <<store, wt, proc, invoked>>

----------------------------------------------------------------------------
(* Bounds *)

\* phase-script invocations explored in one behaviour
MaxInvocations == 3
\* adjacent port pairs the allocator can hand out
NumPairs == 2
\* findings in one review outcome
MaxIssues == 2

Runs == {"r1", "r2"}
\* process slots: phase scripts of different runs may run side by side
Procs == {"p1", "p2"}
\* the slot used when the scripts are run one after the other
SeqProcs == {"p1"}

Phases == {"plan", "build", "test", "review", "document"}

\* the label each script passes to state.save
Label(ph) ==
    CASE ph = "plan" -> "adw_plan_iso"
      [] ph = "build" -> "adw_build_iso"
      [] ph = "test" -> "adw_test_iso"
      [] ph = "review" -> "adw_review_iso"
      [] ph = "document" -> "adw_document_iso"

Severities == {"blocker", "tech_debt"}

----------------------------------------------------------------------------
(* Run state (design document section 3, 4.1) *)

Absent == <<>>

\* ADWState(adw_id): a fresh in-memory state
NewState(id) ==
    [adw_id |-> id, issue_number |-> "", issue_class |-> "",
     branch_name |-> "", worktree_path |-> "",
     backend_port |-> 0, frontend_port |-> 0,
     plan_file |-> "", docs_ref |-> "", review_outcome |-> <<>>,
     phase_history |-> <<>>]

\* ADWState.load(adw_id): the persisted state, or absent
Load(id) == store[id]

\* the in-memory state after state.save(label): the label is recorded as the
\* most recently completed step
Saved(st, label) ==
    [st EXCEPT !.phase_history = Append(@, label)]

\* StoreAfterSave writing one state file shared by all runs, instead of the
\* file kept under the run's adw_id
StoreAfterSave_SharedFile(st, label) ==
    [r \in Runs |-> <<Saved(st, label)>>]

\* the store after state.save(label): the run's record is overwritten wholesale
StoreAfterSave(st, label) ==
    [store EXCEPT ![st.adw_id] = <<Saved(st, label)>>]

IssueOf(id) == IF id = "r1" THEN "101" ELSE "102"
BranchOf(id) == IF id = "r1" THEN "feat-101-r1" ELSE "feat-102-r2"
WorktreeOf(id) == IF id = "r1" THEN "trees/r1" ELSE "trees/r2"

\* validate_worktree(adw_id, state): the recorded workspace still exists
ValidateWorktree(id, st) ==
    /\ st.worktree_path # ""
    /\ wt[id]

\* find_spec_file(state, logger): the plan reference held by the state, "" if none
FindSpecFile(st) == st.plan_file

\* ports recorded in the persisted state of any run
ReservedPorts ==
    UNION { {store[r][1].backend_port, store[r][1].frontend_port} :
            r \in {x \in Runs : store[x] # Absent} }

PairFree(i) == {2 * i - 1, 2 * i} \cap ReservedPorts = {}

FreePairs == {i \in 1..NumPairs : PairFree(i)}

\* the lowest unused adjacent pair, as its index
LowestFreePair == CHOOSE i \in FreePairs : \A j \in FreePairs : i <= j

----------------------------------------------------------------------------
(* Processes *)

Idle ==
    [phase |-> "none", run |-> "", pc |-> "idle", st |-> Absent,
     store0 |-> Absent, skip_resolution |-> FALSE,
     validated |-> FALSE, valid |-> FALSE,
     looked |-> FALSE, spec_file |-> "",
     backend_port |-> 0, frontend_port |-> 0,
     calls |-> 0, agent_ok |-> FALSE, saves |-> 0, completed |-> FALSE,
     parsed |-> FALSE, payload_success |-> FALSE,
     has_issues |-> FALSE,
     issues |-> <<>>, blocking |-> <<>>, resolved |-> 0, patches |-> 0,
     requests |-> <<>>, path_found |-> FALSE,
     doc_file |-> "", log |-> <<>>,
     rc |-> 0]

Running(p) == proc[p].pc \notin {"idle", "exited"}

\* sys.exit(code)
Exit(pr, code) == [pr EXCEPT !.pc = "exited", !.rc = code]

\* the caller runs one phase script at a time on a run
SingleWriter(p, r) == \A q \in Procs \ {p} : ~(Running(q) /\ proc[q].run = r)

\* a phase script is started: <script> <issue-number> <adw-id> [--skip-resolution]
Invoke(p, r, ph, skip) ==
    /\ ~Running(p)
    /\ invoked < MaxInvocations
    /\ SingleWriter(p, r)
    /\ proc' = [proc EXCEPT ![p] =
                  [Idle EXCEPT !.phase = ph, !.run = r, !.pc = "load",
                               !.store0 = store[r],
                               !.skip_resolution = skip]]
    /\ invoked' = invoked + 1
    /\ UNCHANGED <<store, wt>>

\* a phase script is started while another may be running on the same run:
\* the scripts take no lock and do not look for one another
InvokeUnserialized(p, r, ph) ==
    /\ ~Running(p)
    /\ invoked < MaxInvocations
    /\ proc' = [proc EXCEPT ![p] =
                  [Idle EXCEPT !.phase = ph, !.run = r, !.pc = "load",
                               !.store0 = store[r]]]
    /\ invoked' = invoked + 1
    /\ UNCHANGED <<store, wt>>

\* the worktree directory of a run is removed from disk behind the scripts' back
DeleteWorktree(r) ==
    /\ wt[r]
    /\ wt' = [wt EXCEPT ![r] = FALSE]
    /\ UNCHANGED <<store, proc, invoked>>

----------------------------------------------------------------------------
(* adw_plan_iso.py *)

\* PlanLoad with lines 67-69 made unconditional: the loaded state is dropped
\* and a fresh ADWState is always used
PlanLoad_AlwaysFresh(p, ok) ==
    LET pr == proc[p]
        id == pr.run
        st0 == [NewState(id) EXCEPT !.issue_number = IssueOf(id),
                                    !.issue_class = "/feature",
                                    !.branch_name = BranchOf(id)]
    IN
    /\ pr.phase = "plan" /\ pr.pc = "load"
    /\ IF ok
       THEN /\ proc' = [proc EXCEPT ![p] = [pr EXCEPT !.st = <<st0>>, !.pc = "ports"]]
            /\ wt' = [wt EXCEPT ![id] = TRUE]
       ELSE /\ proc' = [proc EXCEPT ![p] = Exit(pr, 1)]
            /\ UNCHANGED wt
    /\ UNCHANGED <<store, invoked>>

\* lines 58-118: load or create the state, fetch the issue, branch name,
\* create the worktree. ensure_adw_id hands back the adw id of the command
\* line; ok is FALSE when fetching the issue, classifying it, naming the
\* branch or creating the worktree reports an error.
PlanLoad(p, ok) ==
    LET pr == proc[p]
        id == pr.run
        loaded == Load(id)
        st0 == IF loaded = Absent
               THEN [NewState(id) EXCEPT !.issue_number = IssueOf(id)]
               ELSE loaded[1]
        branch == IF st0.branch_name # "" THEN st0.branch_name ELSE BranchOf(id)
        st1 == IF st0.branch_name # "" THEN st0
               ELSE [st0 EXCEPT !.issue_class = "/feature"]
    IN
    /\ pr.phase = "plan" /\ pr.pc = "load"
    /\ IF ok
       THEN /\ proc' = [proc EXCEPT ![p] =
                          [pr EXCEPT !.st = <<[st1 EXCEPT !.branch_name = branch]>>,
                                     !.pc = "ports"]]
            /\ wt' = [wt EXCEPT ![id] = TRUE]
       ELSE /\ proc' = [proc EXCEPT ![p] = Exit(pr, 1)]
            /\ UNCHANGED wt
    /\ UNCHANGED <<store, invoked>>

\* line 121: find_next_available_ports(adw_id)
PlanPorts(p) ==
    LET pr == proc[p] IN
    /\ pr.phase = "plan" /\ pr.pc = "ports"
    /\ IF FreePairs = {}
       THEN proc' = [proc EXCEPT ![p] = Exit(pr, 1)]
       ELSE proc' = [proc EXCEPT ![p] =
                       [pr EXCEPT !.backend_port = 2 * LowestFreePair - 1,
                                  !.frontend_port = 2 * LowestFreePair,
                                  !.pc = "save_wt"]]
    /\ UNCHANGED <<store, wt, invoked>>

\* lines 124-131: state.update(worktree info); state.save("adw_plan_iso")
PlanSaveWorktree(p) ==
    LET pr == proc[p]
        st == [pr.st[1] EXCEPT !.worktree_path = WorktreeOf(pr.run),
                               !.backend_port = pr.backend_port,
                               !.frontend_port = pr.frontend_port]
    IN
    /\ pr.phase = "plan" /\ pr.pc = "save_wt"
    /\ store' = StoreAfterSave(st, Label("plan"))
    /\ proc' = [proc EXCEPT ![p] =
                  [pr EXCEPT !.st = <<Saved(st, Label("plan"))>>,
                             !.saves = @ + 1, !.pc = "install"]]
    /\ UNCHANGED <<wt, invoked>>

\* lines 133-146: /install_worktree
PlanInstall(p, success) ==
    LET pr == proc[p]
        called == [pr EXCEPT !.calls = @ + 1]
    IN
    /\ pr.phase = "plan" /\ pr.pc = "install"
    /\ proc' = [proc EXCEPT ![p] =
                  IF ~success THEN Exit(called, 1)
                  ELSE [called EXCEPT !.pc = "build_plan"]]
    /\ UNCHANGED <<store, wt, invoked>>

\* lines 148-182: build_plan, extract the plan file, state.save("adw_plan_iso")
PlanBuild(p, success, has_path) ==
    LET pr == proc[p]
        called == [pr EXCEPT !.calls = @ + 1, !.agent_ok = success]
        plan_file == IF has_path THEN "specs/plan.md" ELSE "raw response text"
        st == [pr.st[1] EXCEPT !.plan_file = plan_file]
    IN
    /\ pr.phase = "plan" /\ pr.pc = "build_plan"
    /\ IF ~success
       THEN /\ proc' = [proc EXCEPT ![p] = Exit(called, 1)]
            /\ UNCHANGED store
       ELSE /\ store' = StoreAfterSave(st, Label("plan"))
            /\ proc' = [proc EXCEPT ![p] =
                          Exit([called EXCEPT !.st = <<Saved(st, Label("plan"))>>,
                                              !.path_found = has_path,
                                              !.saves = @ + 1,
                                              !.completed = TRUE], 0)]
    /\ UNCHANGED <<wt, invoked>>

----------------------------------------------------------------------------
(* adw_build_iso.py *)

\* BuildLoad without the exit of lines 59-61: an invalid worktree is only logged
BuildLoad_IgnoreInvalid(p) ==
    LET pr == proc[p]
        loaded == Load(pr.run)
        valid == ValidateWorktree(pr.run, loaded[1])
        spec_file == FindSpecFile(loaded[1])
        l1 == [pr EXCEPT !.st = loaded]
        l3 == [l1 EXCEPT !.validated = TRUE, !.valid = valid,
                         !.looked = TRUE, !.spec_file = spec_file]
    IN
    /\ pr.phase = "build" /\ pr.pc = "load"
    /\ proc' = [proc EXCEPT ![p] =
                  IF loaded = Absent THEN Exit(l1, 1)
                  ELSE IF spec_file = "" THEN Exit(l3, 1)
                  ELSE [l3 EXCEPT !.pc = "agent"]]
    /\ UNCHANGED <<store, wt, invoked>>

\* lines 50-72: load the state, validate the worktree, find the spec file
BuildLoad(p) ==
    LET pr == proc[p]
        loaded == Load(pr.run)
        valid == ValidateWorktree(pr.run, loaded[1])
        spec_file == FindSpecFile(loaded[1])
        l1 == [pr EXCEPT !.st = loaded]
        l2 == [l1 EXCEPT !.validated = TRUE, !.valid = valid]
        l3 == [l2 EXCEPT !.looked = TRUE, !.spec_file = spec_file]
    IN
    /\ pr.phase = "build" /\ pr.pc = "load"
    /\ proc' = [proc EXCEPT ![p] =
                  IF loaded = Absent THEN Exit(l1, 1)
                  ELSE IF ~valid THEN Exit(l2, 1)
                  ELSE IF spec_file = "" THEN Exit(l3, 1)
                  ELSE [l3 EXCEPT !.pc = "agent"]]
    /\ UNCHANGED <<store, wt, invoked>>

\* BuildAgent without the exit of lines 80-82: the state is saved whatever the
\* implementation's success flag
BuildAgent_SaveAnyway(p, success) ==
    LET pr == proc[p]
        called == [pr EXCEPT !.calls = @ + 1, !.agent_ok = success]
    IN
    /\ pr.phase = "build" /\ pr.pc = "agent"
    /\ store' = StoreAfterSave(pr.st[1], Label("build"))
    /\ proc' = [proc EXCEPT ![p] =
                  Exit([called EXCEPT !.st = <<Saved(pr.st[1], Label("build"))>>,
                                      !.saves = @ + 1,
                                      !.completed = TRUE], 0)]
    /\ UNCHANGED <<wt, invoked>>

\* BuildAgent storing the implementation's output as the plan reference before
\* the save of line 87
BuildAgent_OverwritesPlanFile(p, success) ==
    LET pr == proc[p]
        called == [pr EXCEPT !.calls = @ + 1, !.agent_ok = success]
        st == [pr.st[1] EXCEPT !.plan_file = "implement_response.output"]
    IN
    /\ pr.phase = "build" /\ pr.pc = "agent"
    /\ IF ~success
       THEN /\ proc' = [proc EXCEPT ![p] = Exit(called, 1)]
            /\ UNCHANGED store
       ELSE /\ store' = StoreAfterSave(st, Label("build"))
            /\ proc' = [proc EXCEPT ![p] =
                          Exit([called EXCEPT !.st = <<Saved(st, Label("build"))>>,
                                              !.saves = @ + 1,
                                              !.completed = TRUE], 0)]
    /\ UNCHANGED <<wt, invoked>>

\* lines 74-92: implement_plan, state.save("adw_build_iso")
BuildAgent(p, success) ==
    LET pr == proc[p]
        called == [pr EXCEPT !.calls = @ + 1, !.agent_ok = success]
    IN
    /\ pr.phase = "build" /\ pr.pc = "agent"
    /\ IF ~success
       THEN /\ proc' = [proc EXCEPT ![p] = Exit(called, 1)]
            /\ UNCHANGED store
       ELSE /\ store' = StoreAfterSave(pr.st[1], Label("build"))
            /\ proc' = [proc EXCEPT ![p] =
                          Exit([called EXCEPT !.st = <<Saved(pr.st[1], Label("build"))>>,
                                              !.saves = @ + 1,
                                              !.completed = TRUE], 0)]
    /\ UNCHANGED <<wt, invoked>>

----------------------------------------------------------------------------
(* adw_test_iso.py *)

\* TestLoad treating a missing state as planning does (a new ADWState) instead
\* of the exit of lines 59-61
TestLoad_CreateWhenAbsent(p) ==
    LET pr == proc[p]
        loaded == IF Load(pr.run) = Absent THEN <<NewState(pr.run)>> ELSE Load(pr.run)
        valid == ValidateWorktree(pr.run, loaded[1])
        l2 == [pr EXCEPT !.st = loaded, !.validated = TRUE, !.valid = valid]
    IN
    /\ pr.phase = "test" /\ pr.pc = "load"
    /\ proc' = [proc EXCEPT ![p] =
                  IF ~valid THEN Exit(l2, 1)
                  ELSE [l2 EXCEPT !.pc = "agent"]]
    /\ UNCHANGED <<store, wt, invoked>>

\* lines 57-71: load the state, validate the worktree
TestLoad(p) ==
    LET pr == proc[p]
        loaded == Load(pr.run)
        valid == ValidateWorktree(pr.run, loaded[1])
        l1 == [pr EXCEPT !.st = loaded]
        l2 == [l1 EXCEPT !.validated = TRUE, !.valid = valid]
    IN
    /\ pr.phase = "test" /\ pr.pc = "load"
    /\ proc' = [proc EXCEPT ![p] =
                  IF loaded = Absent THEN Exit(l1, 1)
                  ELSE IF ~valid THEN Exit(l2, 1)
                  ELSE [l2 EXCEPT !.pc = "agent"]]
    /\ UNCHANGED <<store, wt, invoked>>

\* TestAgent exiting on reported failures before the save, as the build script
\* does on a failed implementation
TestAgent_ExitOnFailure(p, success) ==
    LET pr == proc[p]
        called == [pr EXCEPT !.calls = @ + 1, !.agent_ok = success]
    IN
    /\ pr.phase = "test" /\ pr.pc = "agent"
    /\ IF ~success
       THEN /\ proc' = [proc EXCEPT ![p] = Exit(called, 1)]
            /\ UNCHANGED store
       ELSE /\ store' = StoreAfterSave(pr.st[1], Label("test"))
            /\ proc' = [proc EXCEPT ![p] =
                          Exit([called EXCEPT !.st = <<Saved(pr.st[1], Label("test"))>>,
                                              !.saves = @ + 1,
                                              !.completed = TRUE], 0)]
    /\ UNCHANGED <<wt, invoked>>

\* lines 73-102: /test, state.save("adw_test_iso"), exit with the test result
TestAgent(p, success) ==
    LET pr == proc[p]
        called == [pr EXCEPT !.calls = @ + 1, !.agent_ok = success]
    IN
    /\ pr.phase = "test" /\ pr.pc = "agent"
    /\ store' = StoreAfterSave(pr.st[1], Label("test"))
    /\ proc' = [proc EXCEPT ![p] =
                  Exit([called EXCEPT !.st = <<Saved(pr.st[1], Label("test"))>>,
                                      !.saves = @ + 1,
                                      !.completed = TRUE],
                       IF success THEN 0 ELSE 1)]
    /\ UNCHANGED <<wt, invoked>>

----------------------------------------------------------------------------
(* adw_review_iso.py *)

\* a finding of a payload: its severity and whether it comes with a
\* screenshot. The script reads the screenshot of blocking findings only
\* (line 149), so the other findings are taken without one.
IssueKinds ==
    {k \in Severities \X BOOLEAN : k[2] => k[1] = "blocker"}

\* review_issues of the payloads the review agent may answer with
IssueLists ==
    UNION { [1..n -> IssueKinds] : n \in 0..MaxIssues }

\* the review agent's output: not JSON at all, or a JSON object with or
\* without the review_issues field
ReviewOutputs ==
    {[json |-> FALSE, has_issues |-> FALSE, success |-> FALSE, issues |-> <<>>]}
    \cup {[json |-> TRUE, has_issues |-> FALSE, success |-> s, issues |-> <<>>] :
            s \in BOOLEAN}
    \cup {[json |-> TRUE, has_issues |-> TRUE, success |-> s, issues |-> i] :
            s \in BOOLEAN, i \in IssueLists}

\* a finding without a screenshot; the value of dict.get for a missing key
None == <<>>

\* the i-th record of review_issues: its number, severity, description,
\* resolution text and optional screenshot (the texts stand for themselves,
\* one per finding)
Issue(i, sev, shot) ==
    [review_issue_number |-> i, issue_severity |-> sev,
     issue_description |-> <<"description", i>>,
     issue_resolution |-> <<"resolution", i>>,
     issue_screenshot_path |-> IF shot THEN <<"screenshot", i>> ELSE None]

\* review_results.get("review_issues", []) of a parsed output
ReviewIssues(out) ==
    IF out.has_issues
    THEN [i \in 1..Len(out.issues) |->
              Issue(i, out.issues[i][1], out.issues[i][2])]
    ELSE <<>>

\* issue.get(key): the value of the key, None when the record has no such key
Get(issue, key) == IF key \in DOMAIN issue THEN issue[key] ELSE None

\* lines 142-151: the arguments of create_and_implement_patch that come from
\* the finding
PatchRequest(issue) ==
    [review_change_request |-> issue.issue_resolution,
     issue_screenshots |-> Get(issue, "screenshot_path")]

\* a line the script logs: logger.info / logger.warning / logger.error
LogLine(level, text, n, what) ==
    [level |-> level, text |-> text, n |-> n, what |-> what]

\* lines 160-162: the count of blocking issues, then each description
SkippedReport(blocking) ==
    <<LogLine("error", "Found blocking issues (resolution skipped)",
              Len(blocking), <<>>)>>
    \o [i \in 1..Len(blocking) |->
           LogLine("error", "  - ", 0, blocking[i].issue_description)]

\* IsBlocker without the comparison of line 131: every finding is taken as
\* blocking, whatever its severity
IsBlocker_AnySeverity(issue) == issue.issue_severity \in Severities

\* line 131: issue.get("issue_severity") == "blocker"
IsBlocker(issue) == issue.issue_severity = "blocker"

\* lines 128-132: the findings whose issue_severity is "blocker", in order
BlockingIssues(issues) == SelectSeq(issues, IsBlocker)

\* ReviewLoad without the exit of lines 79-81: the review goes on with an
\* empty spec file, as the document script does
ReviewLoad_NoSpecCheck(p) ==
    LET pr == proc[p]
        loaded == Load(pr.run)
        valid == ValidateWorktree(pr.run, loaded[1])
        spec_file == FindSpecFile(loaded[1])
        l1 == [pr EXCEPT !.st = loaded]
        l2 == [l1 EXCEPT !.validated = TRUE, !.valid = valid]
        l3 == [l2 EXCEPT !.looked = TRUE, !.spec_file = spec_file]
    IN
    /\ pr.phase = "review" /\ pr.pc = "load"
    /\ proc' = [proc EXCEPT ![p] =
                  IF loaded = Absent THEN Exit(l1, 1)
                  ELSE IF ~valid THEN Exit(l2, 1)
                  ELSE [l3 EXCEPT !.pc = "agent"]]
    /\ UNCHANGED <<store, wt, invoked>>

\* lines 61-83: load the state, validate the worktree, find the spec file
ReviewLoad(p) ==
    LET pr == proc[p]
        loaded == Load(pr.run)
        valid == ValidateWorktree(pr.run, loaded[1])
        spec_file == FindSpecFile(loaded[1])
        l1 == [pr EXCEPT !.st = loaded]
        l2 == [l1 EXCEPT !.validated = TRUE, !.valid = valid]
        l3 == [l2 EXCEPT !.looked = TRUE, !.spec_file = spec_file]
    IN
    /\ pr.phase = "review" /\ pr.pc = "load"
    /\ proc' = [proc EXCEPT ![p] =
                  IF loaded = Absent THEN Exit(l1, 1)
                  ELSE IF ~valid THEN Exit(l2, 1)
                  ELSE IF spec_file = "" THEN Exit(l3, 1)
                  ELSE [l3 EXCEPT !.pc = "agent"]]
    /\ UNCHANGED <<store, wt, invoked>>

\* lines 165-166 and 168-174: state.save("adw_review_iso"), normal end
ReviewSaved(pr) ==
    Exit([pr EXCEPT !.st = <<Saved(pr.st[1], Label("review"))>>,
                    !.saves = @ + 1, !.completed = TRUE], 0)

\* ReviewAgent without the sys.exit(1) of line 163: with --skip-resolution the
\* blocking issues are logged and the script goes on to the save of line 166
ReviewAgent_SkipFallsThrough(p, success, out) ==
    LET pr == proc[p]
        called == [pr EXCEPT !.calls = @ + 1, !.agent_ok = success]
        issues == ReviewIssues(out)
        blocking == BlockingIssues(issues)
        parsed == [called EXCEPT !.parsed = TRUE,
                                 !.payload_success = out.success,
                                 !.has_issues = out.has_issues,
                                 !.issues = issues, !.blocking = blocking]
        failed == [called EXCEPT !.log = Append(@,
                      LogLine("error",
                              IF ~success THEN "Review failed to execute"
                              ELSE "Failed to parse review results", 0, <<>>))]
        resolving == [parsed EXCEPT !.log = Append(@,
                         LogLine("warning",
                                 "Found blocking issues, attempting resolution",
                                 Len(blocking), <<>>))]
        skipped == [parsed EXCEPT !.log = @ \o SkippedReport(blocking)]
    IN
    /\ pr.phase = "review" /\ pr.pc = "agent"
    /\ IF ~success \/ ~out.json
       THEN /\ proc' = [proc EXCEPT ![p] = Exit(failed, 1)]
            /\ UNCHANGED store
       ELSE IF blocking # <<>> /\ ~pr.skip_resolution
       THEN /\ proc' = [proc EXCEPT ![p] = [resolving EXCEPT !.pc = "resolve"]]
            /\ UNCHANGED store
       ELSE /\ store' = StoreAfterSave(pr.st[1], Label("review"))
            /\ proc' = [proc EXCEPT ![p] =
                          ReviewSaved(IF blocking # <<>> THEN skipped ELSE parsed)]
    /\ UNCHANGED <<wt, invoked>>

\* ReviewAgent with the save of lines 165-166 indented into the resolution
\* branch: a review without blocking issues ends without saving
ReviewAgent_SaveOnlyAfterResolution(p, success, out) ==
    LET pr == proc[p]
        called == [pr EXCEPT !.calls = @ + 1, !.agent_ok = success]
        issues == ReviewIssues(out)
        blocking == BlockingIssues(issues)
        parsed == [called EXCEPT !.parsed = TRUE,
                                 !.payload_success = out.success,
                                 !.has_issues = out.has_issues,
                                 !.issues = issues, !.blocking = blocking]
        failed == [called EXCEPT !.log = Append(@,
                      LogLine("error",
                              IF ~success THEN "Review failed to execute"
                              ELSE "Failed to parse review results", 0, <<>>))]
        resolving == [parsed EXCEPT !.log = Append(@,
                         LogLine("warning",
                                 "Found blocking issues, attempting resolution",
                                 Len(blocking), <<>>))]
        skipped == [parsed EXCEPT !.log = @ \o SkippedReport(blocking)]
    IN
    /\ pr.phase = "review" /\ pr.pc = "agent"
    /\ IF ~success \/ ~out.json
       THEN /\ proc' = [proc EXCEPT ![p] = Exit(failed, 1)]
            /\ UNCHANGED store
       ELSE IF blocking # <<>> /\ ~pr.skip_resolution
       THEN /\ proc' = [proc EXCEPT ![p] = [resolving EXCEPT !.pc = "resolve"]]
            /\ UNCHANGED store
       ELSE IF blocking # <<>>
       THEN /\ proc' = [proc EXCEPT ![p] = Exit(skipped, 1)]
            /\ UNCHANGED store
       ELSE /\ proc' = [proc EXCEPT ![p] = Exit(parsed, 0)]
            /\ UNCHANGED store
    /\ UNCHANGED <<wt, invoked>>

\* lines 85-136 and 159-179: /review, parse the output, select the blocking
\* issues; without any, save; with --skip-resolution, abort
ReviewAgent(p, success, out) ==
    LET pr == proc[p]
        called == [pr EXCEPT !.calls = @ + 1, !.agent_ok = success]
        issues == ReviewIssues(out)
        blocking == BlockingIssues(issues)
        parsed == [called EXCEPT !.parsed = TRUE,
                                 !.payload_success = out.success,
                                 !.has_issues = out.has_issues,
                                 !.issues = issues, !.blocking = blocking]
        failed == [called EXCEPT !.log = Append(@,
                      LogLine("error",
                              IF ~success THEN "Review failed to execute"
                              ELSE "Failed to parse review results", 0, <<>>))]
        resolving == [parsed EXCEPT !.log = Append(@,
                         LogLine("warning",
                                 "Found blocking issues, attempting resolution",
                                 Len(blocking), <<>>))]
        skipped == [parsed EXCEPT !.log = @ \o SkippedReport(blocking)]
    IN
    /\ pr.phase = "review" /\ pr.pc = "agent"
    /\ IF ~success \/ ~out.json
       THEN /\ proc' = [proc EXCEPT ![p] = Exit(failed, 1)]
            /\ UNCHANGED store
       ELSE IF blocking # <<>> /\ ~pr.skip_resolution
       THEN /\ proc' = [proc EXCEPT ![p] = [resolving EXCEPT !.pc = "resolve"]]
            /\ UNCHANGED store
       ELSE IF blocking # <<>>
       THEN /\ proc' = [proc EXCEPT ![p] = Exit(skipped, 1)]
            /\ UNCHANGED store
       ELSE /\ store' = StoreAfterSave(pr.st[1], Label("review"))
            /\ proc' = [proc EXCEPT ![p] = ReviewSaved(parsed)]
    /\ UNCHANGED <<wt, invoked>>

\* ReviewPatch without the sys.exit(1) of line 155: a failed patch is logged
\* and the loop goes on to the next blocking issue
ReviewPatch_ContinueOnFailure(p, success) ==
    LET pr == proc[p]
        issue == pr.blocking[pr.resolved + 1]
        called == [pr EXCEPT !.calls = @ + 1, !.patches = @ + 1,
                             !.requests = Append(@, PatchRequest(issue)),
                             !.log = Append(@,
                                 LogLine("info", "Resolving issue",
                                         issue.review_issue_number,
                                         issue.issue_description))]
        failed == [called EXCEPT !.log = Append(@,
                      LogLine("error", "Failed to resolve issue", 0,
                              <<"patch_response.output">>))]
        done == [called EXCEPT !.resolved = @ + 1,
                               !.log = Append(@,
                                   LogLine("info", "Resolved issue",
                                           issue.review_issue_number, <<>>))]
    IN
    /\ pr.phase = "review" /\ pr.pc = "resolve"
    /\ pr.resolved < Len(pr.blocking)
    /\ LET next == IF success THEN done
                   ELSE [failed EXCEPT !.resolved = @ + 1]
       IN IF next.resolved < Len(pr.blocking)
          THEN /\ proc' = [proc EXCEPT ![p] = next]
               /\ UNCHANGED store
          ELSE /\ store' = StoreAfterSave(pr.st[1], Label("review"))
               /\ proc' = [proc EXCEPT ![p] = ReviewSaved(next)]
    /\ UNCHANGED <<wt, invoked>>

------------------------------------------------------------

\* ReviewPatch starting the loop over from the first blocking issue when a
\* patch fails, instead of the sys.exit(1) of line 155
ReviewPatch_RestartOnFailure(p, success) ==
    LET pr == proc[p]
        issue == pr.blocking[pr.resolved + 1]
        called == [pr EXCEPT !.calls = @ + 1, !.patches = @ + 1,
                             !.requests = Append(@, PatchRequest(issue)),
                             !.log = Append(@,
                                 LogLine("info", "Resolving issue",
                                         issue.review_issue_number,
                                         issue.issue_description))]
        failed == [called EXCEPT !.log = Append(@,
                      LogLine("error", "Failed to resolve issue", 0,
                              <<"patch_response.output">>))]
        done == [called EXCEPT !.resolved = @ + 1,
                               !.log = Append(@,
                                   LogLine("info", "Resolved issue",
                                           issue.review_issue_number, <<>>))]
    IN
    /\ pr.phase = "review" /\ pr.pc = "resolve"
    /\ pr.resolved < Len(pr.blocking)
    /\ IF ~success
       THEN /\ proc' = [proc EXCEPT ![p] =
                          [pr EXCEPT !.resolved = 0, !.patches = 0, !.calls = 1,
                                     !.requests = <<>>,
                                     !.log = SubSeq(@, 1, 1)]]
            /\ UNCHANGED store
       ELSE IF done.resolved < Len(pr.blocking)
       THEN /\ proc' = [proc EXCEPT ![p] = done]
            /\ UNCHANGED store
       ELSE /\ store' = StoreAfterSave(pr.st[1], Label("review"))
            /\ proc' = [proc EXCEPT ![p] = ReviewSaved(done)]
    /\ UNCHANGED <<wt, invoked>>

------------------------------------------------------------

\* ReviewPatch with one more attempt on the same blocking issue after the
\* first failed patch of the invocation, instead of the sys.exit(1) of line 155
ReviewPatch_RetryOnce(p, success) ==
    LET pr == proc[p]
        issue == pr.blocking[pr.resolved + 1]
        called == [pr EXCEPT !.calls = @ + 1, !.patches = @ + 1,
                             !.requests = Append(@, PatchRequest(issue)),
                             !.log = Append(@,
                                 LogLine("info", "Resolving issue",
                                         issue.review_issue_number,
                                         issue.issue_description))]
        failed == [called EXCEPT !.log = Append(@,
                      LogLine("error", "Failed to resolve issue", 0,
                              <<"patch_response.output">>))]
        done == [called EXCEPT !.resolved = @ + 1,
                               !.log = Append(@,
                                   LogLine("info", "Resolved issue",
                                           issue.review_issue_number, <<>>))]
    IN
    /\ pr.phase = "review" /\ pr.pc = "resolve"
    /\ pr.resolved < Len(pr.blocking)
    /\ IF ~success
       THEN /\ proc' = [proc EXCEPT ![p] =
                          IF pr.patches = pr.resolved THEN failed
                          ELSE Exit(failed, 1)]
            /\ UNCHANGED store
       ELSE IF done.resolved < Len(pr.blocking)
       THEN /\ proc' = [proc EXCEPT ![p] = done]
            /\ UNCHANGED store
       ELSE /\ store' = StoreAfterSave(pr.st[1], Label("review"))
            /\ proc' = [proc EXCEPT ![p] = ReviewSaved(done)]
    /\ UNCHANGED <<wt, invoked>>

------------------------------------------------------------

\* lines 138-157: create_and_implement_patch for the next blocking issue;
\* after the last one, lines 165-166
ReviewPatch(p, success) ==
    LET pr == proc[p]
        issue == pr.blocking[pr.resolved + 1]
        called == [pr EXCEPT !.calls = @ + 1, !.patches = @ + 1,
                             !.requests = Append(@, PatchRequest(issue)),
                             !.log = Append(@,
                                 LogLine("info", "Resolving issue",
                                         issue.review_issue_number,
                                         issue.issue_description))]
        failed == [called EXCEPT !.log = Append(@,
                      LogLine("error", "Failed to resolve issue", 0,
                              <<"patch_response.output">>))]
        done == [called EXCEPT !.resolved = @ + 1,
                               !.log = Append(@,
                                   LogLine("info", "Resolved issue",
                                           issue.review_issue_number, <<>>))]
    IN
    /\ pr.phase = "review" /\ pr.pc = "resolve"
    /\ pr.resolved < Len(pr.blocking)
    /\ IF ~success
       THEN /\ proc' = [proc EXCEPT ![p] = Exit(failed, 1)]
            /\ UNCHANGED store
       ELSE IF done.resolved < Len(pr.blocking)
       THEN /\ proc' = [proc EXCEPT ![p] = done]
            /\ UNCHANGED store
       ELSE /\ store' = StoreAfterSave(pr.st[1], Label("review"))
            /\ proc' = [proc EXCEPT ![p] = ReviewSaved(done)]
    /\ UNCHANGED <<wt, invoked>>

----------------------------------------------------------------------------
(* adw_document_iso.py *)

\* lines 52-87: load the state, validate the worktree, find the spec file
\* (documenting goes on without one)
DocumentLoad(p) ==
    LET pr == proc[p]
        loaded == Load(pr.run)
        valid == ValidateWorktree(pr.run, loaded[1])
        spec_file == FindSpecFile(loaded[1])
        l1 == [pr EXCEPT !.st = loaded]
        l2 == [l1 EXCEPT !.validated = TRUE, !.valid = valid]
        l3 == [l2 EXCEPT !.looked = TRUE, !.spec_file = spec_file]
    IN
    /\ pr.phase = "document" /\ pr.pc = "load"
    /\ proc' = [proc EXCEPT ![p] =
                  IF loaded = Absent THEN Exit(l1, 1)
                  ELSE IF ~valid THEN Exit(l2, 1)
                  ELSE [l3 EXCEPT !.pc = "agent"]]
    /\ UNCHANGED <<store, wt, invoked>>

\* lines 89-115: /document, doc_file = the agent's output,
\* state.save("adw_document_iso")
DocumentAgent(p, success) ==
    LET pr == proc[p]
        called == [pr EXCEPT !.calls = @ + 1, !.agent_ok = success]
    IN
    /\ pr.phase = "document" /\ pr.pc = "agent"
    /\ IF ~success
       THEN /\ proc' = [proc EXCEPT ![p] = Exit(called, 1)]
            /\ UNCHANGED store
       ELSE /\ store' = StoreAfterSave(pr.st[1], Label("document"))
            /\ proc' = [proc EXCEPT ![p] =
                          Exit([called EXCEPT !.st = <<Saved(pr.st[1], Label("document"))>>,
                                              !.doc_file = "app_docs/feature.md",
                                              !.saves = @ + 1,
                                              !.completed = TRUE], 0)]
    /\ UNCHANGED <<wt, invoked>>

----------------------------------------------------------------------------

Init ==
    /\ store = [r \in Runs |-> Absent]
    /\ wt = [r \in Runs |-> FALSE]
    /\ proc = [p \in Procs |-> Idle]
    /\ invoked = 0

Next ==
    \/ \E p \in SeqProcs, r \in Runs, ph \in Phases, skip \in BOOLEAN :
          /\ (skip => ph = "review")
          /\ Invoke(p, r, ph, skip)
    \/ \E r \in Runs : DeleteWorktree(r)
    \/ \E p \in SeqProcs, ok \in BOOLEAN : PlanLoad(p, ok)
    \/ \E p \in SeqProcs : PlanPorts(p)
    \/ \E p \in SeqProcs : PlanSaveWorktree(p)
    \/ \E p \in SeqProcs, success \in BOOLEAN : PlanInstall(p, success)
    \/ \E p \in SeqProcs, success \in BOOLEAN, has_path \in BOOLEAN :
          PlanBuild(p, success, has_path)
    \/ \E p \in SeqProcs : BuildLoad(p)
    \/ \E p \in SeqProcs, success \in BOOLEAN : BuildAgent(p, success)
    \/ \E p \in SeqProcs : TestLoad(p)
    \/ \E p \in SeqProcs, success \in BOOLEAN : TestAgent(p, success)
    \/ \E p \in SeqProcs : ReviewLoad(p)
    \/ \E p \in SeqProcs, success \in BOOLEAN, out \in ReviewOutputs :
          ReviewAgent(p, success, out)
    \/ \E p \in SeqProcs, success \in BOOLEAN : ReviewPatch(p, success)
    \/ \E p \in SeqProcs : DocumentLoad(p)
    \/ \E p \in SeqProcs, success \in BOOLEAN : DocumentAgent(p, success)

Spec == Init /\ [][Next]_vars

\* one pass of the resolution loop of a running review script
ResolveStep == \E p \in SeqProcs, success \in BOOLEAN : ReviewPatch(p, success)

\* the scripts run one after the other, and a review script that is in its
\* resolution loop goes on: every create_and_implement_patch call returns
SpecResolve == Init /\ [][Next]_vars /\ WF_vars(ResolveStep)

\* planning phases of different runs started side by side, as independent
\* processes
NextPlanRace ==
    \/ \E p \in Procs, r \in Runs : Invoke(p, r, "plan", FALSE)
    \/ \E p \in Procs, ok \in BOOLEAN : PlanLoad(p, ok)
    \/ \E p \in Procs : PlanPorts(p)
    \/ \E p \in Procs : PlanSaveWorktree(p)
    \/ \E p \in Procs, success \in BOOLEAN : PlanInstall(p, success)
    \/ \E p \in Procs, success \in BOOLEAN, has_path \in BOOLEAN :
          PlanBuild(p, success, has_path)

SpecPlanRace == Init /\ [][NextPlanRace]_vars

\* the scripts that the callers may start side by side here
ConcurrentPhases == {"plan", "build", "test"}

\* plan, build and test scripts started as independent processes, on
\* different runs or on the same run, with nothing serializing them
NextConcurrent ==
    \/ \E p \in Procs, r \in Runs, ph \in ConcurrentPhases :
          InvokeUnserialized(p, r, ph)
    \/ \E p \in Procs, ok \in BOOLEAN : PlanLoad(p, ok)
    \/ \E p \in Procs : PlanPorts(p)
    \/ \E p \in Procs : PlanSaveWorktree(p)
    \/ \E p \in Procs, success \in BOOLEAN : PlanInstall(p, success)
    \/ \E p \in Procs, success \in BOOLEAN, has_path \in BOOLEAN :
          PlanBuild(p, success, has_path)
    \/ \E p \in Procs : BuildLoad(p)
    \/ \E p \in Procs, success \in BOOLEAN : BuildAgent(p, success)
    \/ \E p \in Procs : TestLoad(p)
    \/ \E p \in Procs, success \in BOOLEAN : TestAgent(p, success)

SpecConcurrent == Init /\ [][NextConcurrent]_vars

----------------------------------------------------------------------------
(* Properties *)

Range(f) == {f[i] : i \in DOMAIN f}

IsPrefix(s, t) == Len(s) <= Len(t) /\ SubSeq(t, 1, Len(s)) = s

PostPlan == {"build", "test", "review", "document"}

\* the phase that precedes ph in plan, build, test, review, document
PrevPhase(ph) ==
    CASE ph = "build" -> "plan"
      [] ph = "test" -> "build"
      [] ph = "review" -> "test"
      [] ph = "document" -> "review"

PortsOf(r) == {store[r][1].backend_port, store[r][1].frontend_port}

\* C1: the port pairs recorded in the states of two different runs are
\* disjoint, whatever the interleaving of their planning phases' port scan
\* and state save.
C1_PortsDisjoint ==
    \A r1 \in Runs, r2 \in Runs :
        (r1 # r2 /\ store[r1] # Absent /\ store[r2] # Absent)
            => PortsOf(r1) \cap PortsOf(r2) = {}

\* C2: across phase-script invocations run one after the other, a persisted
\* run state never disappears and its phase_history is only ever extended by
\* appended labels.
C2_PhaseHistoryAppendOnly ==
    [][\A r \in Runs :
          store[r] # Absent =>
              /\ store'[r] # Absent
              /\ IsPrefix(store[r][1].phase_history, store'[r][1].phase_history)]_vars

\* a run whose history was extended by several invocations (plan twice saved,
\* then another phase)
C2_Witness ==
    \E r \in Runs :
        /\ store[r] # Absent
        /\ Len(store[r][1].phase_history) >= 3
        /\ \E ph \in PostPlan : Label(ph) \in Range(store[r][1].phase_history)

\* C3: a phase script after planning calls the agent or records its label
\* only if the label of the immediately preceding phase is in the phase_history
\* persisted when the script started.
C3_PhaseOrder ==
    \A p \in Procs :
        (proc[p].phase \in PostPlan /\ (proc[p].calls > 0 \/ proc[p].saves > 0))
            => /\ proc[p].store0 # Absent
               /\ Label(PrevPhase(proc[p].phase))
                      \in Range(proc[p].store0[1].phase_history)

\* C4: in build, test, review and document, when validate_worktree reports the
\* loaded state's worktree invalid, the script has exited non-zero with no agent
\* call made and no state saved.
C4_InvalidWorktreeFailsFast ==
    \A p \in Procs :
        (proc[p].phase \in PostPlan /\ proc[p].validated /\ ~proc[p].valid)
            => /\ proc[p].pc = "exited"
               /\ proc[p].rc # 0
               /\ proc[p].calls = 0
               /\ proc[p].saves = 0
               /\ store[proc[p].run] = proc[p].store0

\* a post-planning script stopped by a worktree deleted after planning
C4_Witness ==
    \E p \in Procs :
        /\ proc[p].phase \in PostPlan
        /\ proc[p].store0 # Absent
        /\ proc[p].store0[1].worktree_path # ""
        /\ proc[p].validated /\ ~proc[p].valid
        /\ proc[p].pc = "exited"

\* C5: with no persisted state for the run id, build, test, review and
\* document exit non-zero without validating a worktree, calling the agent or
\* creating a state; planning goes on with a new state for that run id and
\* its save creates the run's record.
C5_MissingState ==
    \A p \in Procs :
        LET pr == proc[p] IN
        /\ (pr.phase \in PostPlan /\ pr.pc # "load" /\ pr.store0 = Absent)
              => /\ pr.pc = "exited"
                 /\ pr.rc # 0
                 /\ ~pr.validated
                 /\ pr.calls = 0
                 /\ pr.saves = 0
                 /\ store[pr.run] = Absent
        /\ (pr.phase = "plan" /\ pr.store0 = Absent /\ pr.pc \in {"ports", "save_wt"})
              => /\ pr.st # Absent
                 /\ pr.st[1].adw_id = pr.run
                 /\ pr.st[1].phase_history = <<>>
        /\ (pr.phase = "plan" /\ pr.store0 = Absent /\ pr.saves > 0)
              => /\ store[pr.run] # Absent
                 /\ store[pr.run][1].adw_id = pr.run

\* a post-planning script that found no state for its run, beside a run whose
\* state planning created
C5_Witness ==
    \E p \in Procs, r \in Runs :
        /\ proc[p].phase \in PostPlan
        /\ proc[p].pc = "exited"
        /\ proc[p].store0 = Absent
        /\ r # proc[p].run
        /\ store[r] # Absent

\* C6: when the test agent reports success = false, the test phase still
\* saves the state with its label: the persisted history ends with the test
\* label.
C6_TestFailureStillRecorded ==
    \A p \in Procs :
        LET pr == proc[p] IN
        (pr.phase = "test" /\ pr.calls > 0 /\ ~pr.agent_ok)
            => /\ pr.saves = 1
               /\ pr.completed
               /\ store[pr.run] = <<Saved(pr.store0[1], Label("test"))>>

\* a test script that has exited after its agent reported failures
C6_Witness ==
    \E p \in Procs :
        /\ proc[p].phase = "test"
        /\ proc[p].calls > 0
        /\ ~proc[p].agent_ok
        /\ proc[p].pc = "exited"

\* C7: a script that completed its contract and saved its label exits 0 (the
\* test phase with reported failures included); a non-zero status means it did
\* not complete.
C7_ExitZeroWhenCompleted ==
    \A p \in Procs :
        (proc[p].pc = "exited" /\ proc[p].completed) => proc[p].rc = 0

\* C8: a script has saved its label only if the agent call made for its phase
\* returned success = true.
C8_LabelOnlyOnAgentSuccess ==
    \A p \in Procs :
        proc[p].saves > 0 => (proc[p].calls > 0 /\ proc[p].agent_ok)

\* C8 as amended: build, review and document save their label only after their
\* agent call returned success = true; test saves its label whatever its agent
\* call returned; planning saves its label once before any of its agent calls
\* and a second time only after build_plan returned success = true.
C8_LabelOnlyOnAgentSuccess_Amended ==
    \A p \in Procs :
        LET pr == proc[p] IN
        /\ (pr.phase \in {"build", "review", "document"} /\ pr.saves > 0)
              => (pr.calls > 0 /\ pr.agent_ok /\ pr.saves = 1)
        /\ (pr.phase \in {"build", "review", "document"} /\ pr.calls > 0 /\ ~pr.agent_ok)
              => (pr.saves = 0 /\ pr.pc = "exited" /\ pr.rc # 0)
        /\ (pr.phase = "test" /\ pr.calls > 0) => pr.saves = 1
        /\ (pr.phase = "test" /\ pr.calls = 0) => pr.saves = 0
        /\ (pr.phase = "plan" /\ pr.calls > 0) => pr.saves >= 1
        /\ (pr.phase = "plan" /\ pr.saves > 1) => (pr.agent_ok /\ pr.saves = 2)

\* a build whose agent call failed, on a run with a plan
C8_Witness ==
    \E p \in Procs :
        /\ proc[p].phase \in {"build", "review", "document"}
        /\ proc[p].calls > 0
        /\ ~proc[p].agent_ok
        /\ proc[p].pc = "exited"

\* C9: build, review and document, when the loaded state holds no plan file
\* reference, make no agent call, record no label and exit non-zero.
C9_NoSpecNoProgress ==
    \A p \in Procs :
        LET pr == proc[p] IN
        (pr.phase \in {"build", "review", "document"} /\ pr.looked /\ pr.spec_file = "")
            => /\ pr.calls = 0
               /\ pr.saves = 0
               /\ (pr.pc = "exited" => pr.rc # 0)

\* C9 as amended: build and review, when the loaded state holds no plan file
\* reference, exit non-zero with no agent call and no label recorded; document
\* goes on to its agent call with an empty spec reference.
C9_NoSpecNoProgress_Amended ==
    \A p \in Procs :
        LET pr == proc[p] IN
        /\ (pr.phase \in {"build", "review"} /\ pr.looked /\ pr.spec_file = "")
              => /\ pr.pc = "exited"
                 /\ pr.rc # 0
                 /\ pr.calls = 0
                 /\ pr.saves = 0
                 /\ store[pr.run] = pr.store0
        /\ (pr.phase = "document" /\ pr.looked /\ pr.spec_file = "")
              => /\ pr.pc \in {"agent", "exited"}
                 /\ (pr.pc = "exited" => pr.calls = 1)
                 /\ (pr.pc = "exited" /\ pr.agent_ok => pr.saves = 1 /\ pr.rc = 0)

\* a build or review stopped for want of a plan reference, on a run whose
\* worktree is valid
C9_Witness ==
    \E p \in Procs :
        /\ proc[p].phase \in {"build", "review"}
        /\ proc[p].valid
        /\ proc[p].looked
        /\ proc[p].spec_file = ""
        /\ proc[p].pc = "exited"

\* C10: after an invocation that failed (exited non-zero without completing),
\* the persisted state of its run equals the one persisted when it started.
C10_FailureLeavesStateAsWas ==
    \A p \in SeqProcs :
        (proc[p].pc = "exited" /\ proc[p].rc # 0 /\ ~proc[p].completed)
            => store[proc[p].run] = proc[p].store0

\* the phase_history of a persisted state, empty when there is none
HistoryOf(s) == IF s = Absent THEN <<>> ELSE s[1].phase_history

\* C11: while a planning invocation has not completed (the plan is not yet
\* generated, or the script exited on an error before that), the persisted
\* state records no planning label beyond what it held when the invocation
\* started.
C11_PlanLabelOnlyAfterPlan ==
    \A p \in Procs :
        (proc[p].phase = "plan" /\ ~proc[p].completed)
            => HistoryOf(store[proc[p].run]) = HistoryOf(proc[p].store0)

\* the values planning allocates for a run
Allocation(st) ==
    <<st.worktree_path, st.branch_name, st.backend_port, st.frontend_port>>

\* C12: once a persisted state holds worktree_path, branch_name and the port
\* pair, no later step of any phase script (a repeated planning included)
\* changes any of them.
C12_AllocationImmutable ==
    [][\A r \in Runs :
          (store[r] # Absent /\ store[r][1].worktree_path # "")
              => /\ store'[r] # Absent
                 /\ Allocation(store'[r][1]) = Allocation(store[r][1])]_vars

\* C13: a script invoked on a run whose persisted history already holds the
\* script's label, with the plan reference present, makes no agent call.
C13_NoRepeatOfCompletedPhase ==
    \A p \in Procs :
        (/\ proc[p].phase \in Phases
         /\ proc[p].store0 # Absent
         /\ Label(proc[p].phase) \in Range(proc[p].store0[1].phase_history)
         /\ proc[p].store0[1].plan_file # "")
            => proc[p].calls = 0

\* a state with the fields blanked that phase ph is responsible for
\* producing: its own phase_history entry, docs_ref for document,
\* review_outcome for review
OtherFields(ph, st) ==
    [st EXCEPT !.phase_history = <<>>,
               !.docs_ref = IF ph = "document" THEN "" ELSE @,
               !.review_outcome = IF ph = "review" THEN <<>> ELSE @]

\* C14: during and after an invocation of build, test, review or document on
\* an existing state, the persisted and the in-memory state hold every field
\* the phase does not produce exactly as loaded, and the loaded phase_history
\* as a prefix; this holds for a second invocation of the same phase too.
C14_PhaseLeavesOtherFields ==
    \A p \in Procs :
        LET pr == proc[p] IN
        (pr.phase \in PostPlan /\ pr.store0 # Absent)
            => /\ store[pr.run] # Absent
               /\ OtherFields(pr.phase, store[pr.run][1])
                      = OtherFields(pr.phase, pr.store0[1])
               /\ IsPrefix(pr.store0[1].phase_history,
                           store[pr.run][1].phase_history)
               /\ (pr.st # Absent =>
                      OtherFields(pr.phase, pr.st[1])
                          = OtherFields(pr.phase, pr.store0[1]))

\* a phase invoked a second time on a planned run has completed again
C14_Witness ==
    \E p \in Procs :
        /\ proc[p].phase \in PostPlan
        /\ proc[p].completed
        /\ proc[p].store0 # Absent
        /\ proc[p].store0[1].plan_file # ""
        /\ Label(proc[p].phase) \in Range(proc[p].store0[1].phase_history)

\* C15: a completed planning invocation leaves the plan reference in the
\* persisted state, and a completed document invocation leaves docs_ref set to
\* the documentation location the agent returned.
C15_OutputLocationWritten ==
    \A p \in Procs :
        LET pr == proc[p] IN
        (pr.pc = "exited" /\ pr.completed)
            => /\ (pr.phase = "plan" => store[pr.run][1].plan_file # "")
               /\ (pr.phase = "document" =>
                      /\ pr.doc_file # ""
                      /\ store[pr.run][1].docs_ref = pr.doc_file)

IsErrorLine(line) == line.level = "error"

\* the positions of the findings of severity blocker in review_issues
Blockers(issues) == {i \in DOMAIN issues : issues[i].issue_severity = "blocker"}

\* C16: a review whose outcome holds n >= 1 blocker findings under
\* --skip-resolution has exited non-zero; its error lines are the count n
\* followed by the n descriptions of the blockers in their order; it made no
\* patch call, saved nothing and is not recorded as completed.
C16_SkipResolutionAborts ==
    \A p \in Procs :
        LET pr == proc[p]
            n == Cardinality(Blockers(pr.issues))
            errs == SelectSeq(pr.log, IsErrorLine)
        IN (pr.phase = "review" /\ pr.parsed /\ pr.skip_resolution /\ n >= 1)
            => /\ pr.pc = "exited" /\ pr.rc # 0
               /\ pr.patches = 0 /\ pr.calls = 1
               /\ pr.saves = 0 /\ ~pr.completed
               /\ store[pr.run] = pr.store0
               /\ Len(errs) = n + 1
               /\ errs[1].n = n
               /\ {errs[k + 1].what : k \in 1..n}
                      = {pr.issues[i].issue_description : i \in Blockers(pr.issues)}
               /\ \A k \in 1..(n - 1) : errs[k + 1].what[2] < errs[k + 2].what[2]

\* a review with --skip-resolution has met two blockers and logged three
\* error lines
C16_Witness ==
    \E p \in Procs :
        /\ proc[p].phase = "review" /\ proc[p].parsed /\ proc[p].skip_resolution
        /\ Cardinality(Blockers(proc[p].issues)) = 2
        /\ Len(SelectSeq(proc[p].log, IsErrorLine)) = 3
        /\ proc[p].pc = "exited"

\* C17: a review with n blocker findings, resolution enabled and every patch
\* successful has completed (label saved, exit 0) with exactly n patch calls,
\* and the persisted state's review_outcome holds the review result with no
\* blocker remaining.
C17_ResolvedReviewRecordsOutcome ==
    \A p \in Procs :
        LET pr == proc[p]
            n == Cardinality(Blockers(pr.issues))
        IN (/\ pr.phase = "review" /\ pr.parsed /\ ~pr.skip_resolution
            /\ n >= 1 /\ pr.resolved = n)
            => /\ pr.pc = "exited" /\ pr.rc = 0 /\ pr.completed
               /\ pr.patches = n
               /\ Label("review") \in Range(HistoryOf(store[pr.run]))
               /\ store[pr.run][1].review_outcome # <<>>
               /\ Blockers(store[pr.run][1].review_outcome[1].review_issues) = {}

\* C18: a review whose outcome has review_issues = [] and success = true has
\* exited 0 with its label saved on top of the state it loaded, after the one
\* /review call and no patch call.
C18_CleanReviewCompletes ==
    \A p \in Procs :
        LET pr == proc[p] IN
        (pr.phase = "review" /\ pr.parsed /\ pr.issues = <<>> /\ pr.payload_success)
            => /\ pr.pc = "exited" /\ pr.rc = 0 /\ pr.completed
               /\ pr.saves = 1
               /\ pr.patches = 0 /\ pr.calls = 1
               /\ store[pr.run] = <<Saved(pr.store0[1], Label("review"))>>
               /\ Label("review") \in Range(HistoryOf(store[pr.run]))

\* a review of a planned run that came back clean
C18_Witness ==
    \E p \in Procs :
        /\ proc[p].phase = "review" /\ proc[p].parsed
        /\ proc[p].issues = <<>> /\ proc[p].payload_success
        /\ proc[p].pc = "exited" /\ proc[p].saves = 1

\* a patch call of this review has reported failure (line 153)
PatchFailed(pr) ==
    /\ pr.phase = "review"
    /\ \E i \in DOMAIN pr.log : pr.log[i].text = "Failed to resolve issue"

\* C19: when the patch of the k-th blocking finding fails, the review has
\* exited non-zero after exactly k patch calls, the k-1 earlier resolutions
\* stand, nothing is saved, and the failure message logged carries the
\* description of the k-th finding.
C19_PatchFailureNamesFinding ==
    \A p \in Procs :
        LET pr == proc[p]
            k == pr.patches
            errs == SelectSeq(pr.log, IsErrorLine)
        IN PatchFailed(pr)
            => /\ pr.pc = "exited" /\ pr.rc # 0
               /\ ~pr.completed /\ pr.saves = 0
               /\ store[pr.run] = pr.store0
               /\ pr.resolved = k - 1
               /\ Len(errs) = 1
               /\ errs[1].what = pr.blocking[k].issue_description

\* C19 as the script has it: when the patch of the k-th blocking finding
\* fails, the review has exited non-zero after exactly k patch calls, the k-1
\* earlier resolutions stand, nothing is saved, and the log ends with the
\* "Resolving issue" line that carries the number and description of the k-th
\* finding, followed by the one failure message, which carries the patch
\* agent's output.
C19_PatchFailureNamesFinding_Amended ==
    \A p \in Procs :
        LET pr == proc[p]
            k == pr.patches
            errs == SelectSeq(pr.log, IsErrorLine)
            last == Len(pr.log)
        IN PatchFailed(pr)
            => /\ pr.pc = "exited" /\ pr.rc # 0
               /\ ~pr.completed /\ pr.saves = 0
               /\ store[pr.run] = pr.store0
               /\ pr.resolved = k - 1
               /\ pr.calls = 1 + k
               /\ Cardinality({i \in DOMAIN pr.log :
                                   pr.log[i].text = "Resolved issue"}) = k - 1
               /\ Len(errs) = 1
               /\ pr.log[last] = errs[1]
               /\ errs[1].text = "Failed to resolve issue"
               /\ errs[1].what = <<"patch_response.output">>
               /\ pr.log[last - 1].text = "Resolving issue"
               /\ pr.log[last - 1].n = pr.blocking[k].review_issue_number
               /\ pr.log[last - 1].what = pr.blocking[k].issue_description

\* the second of two blocking findings failed to patch after the first was
\* resolved
C19_Witness ==
    \E p \in Procs :
        /\ PatchFailed(proc[p])
        /\ proc[p].patches = 2
        /\ Len(proc[p].blocking) >= 2

\* a review in its resolution loop has ended the way the loop can end
ResolutionEnded(p) ==
    /\ proc[p].pc = "exited"
    /\ \/ proc[p].completed /\ proc[p].resolved = Len(proc[p].blocking)
       \/ proc[p].rc # 0 /\ ~proc[p].completed

\* C20: a review that has entered its resolution loop leaves it: it has
\* either resolved every blocking finding and completed, or aborted.
C20_ResolutionTerminates ==
    \A p \in SeqProcs : (proc[p].pc = "resolve") ~> ResolutionEnded(p)

\* the loop is between the first and the second of two blocking findings
C20_Witness ==
    \E p \in SeqProcs :
        /\ proc[p].pc = "resolve"
        /\ Len(proc[p].blocking) = 2
        /\ proc[p].resolved = 1

IsResolvingLine(line) == line.text = "Resolving issue"

\* C21: a review invocation that has called the review agent has called it
\* once; its patch attempts are made on blocking findings only, one attempt at
\* most per finding, in the order of the findings in review_issues and
\* without passing over a blocker.
C21_OneReviewOneAttemptInOrder ==
    \A p \in Procs :
        LET pr == proc[p]
            attempts == SelectSeq(pr.log, IsResolvingLine)
        IN (pr.phase = "review" /\ pr.calls > 0)
            => /\ pr.calls = pr.patches + 1
               /\ Len(attempts) = pr.patches
               /\ Len(pr.requests) = pr.patches
               /\ pr.patches <= Cardinality(Blockers(pr.issues))
               /\ \A k \in 1..Len(attempts) :
                      /\ attempts[k].n \in Blockers(pr.issues)
                      /\ Cardinality({i \in Blockers(pr.issues) :
                                          i <= attempts[k].n}) = k

\* a review made its second patch attempt, on the second of two blockers
C21_Witness ==
    \E p \in Procs :
        /\ proc[p].phase = "review"
        /\ proc[p].patches = 2
        /\ Cardinality(Blockers(proc[p].issues)) = 2

\* C22: a review whose agent call succeeded but answered with something that
\* is not JSON, or with a JSON object lacking the review_issues field, has
\* exited non-zero without saving and is not recorded as completed.
C22_MalformedPayloadFails ==
    \A p \in Procs :
        LET pr == proc[p] IN
        (/\ pr.phase = "review" /\ pr.calls > 0 /\ pr.agent_ok
         /\ (~pr.parsed \/ ~pr.has_issues))
            => /\ pr.pc = "exited" /\ pr.rc # 0
               /\ ~pr.completed /\ pr.saves = 0
               /\ store[pr.run] = pr.store0

\* C23: a planning invocation whose build_plan call succeeded with a response
\* holding no specs/<name>.md path has exited non-zero, is not recorded as
\* completed, and the run state does not hold the raw response text as its
\* plan reference.
C23_NoPlanPathFails ==
    \A p \in Procs :
        LET pr == proc[p] IN
        (pr.phase = "plan" /\ pr.agent_ok /\ ~pr.path_found)
            => /\ pr.pc = "exited" /\ pr.rc # 0
               /\ ~pr.completed
               /\ store[pr.run][1].plan_file # "raw response text"

\* C24: every patch request made by a review carries the issue_resolution
\* text of the blocking finding it is made for and that finding's
\* issue_screenshot_path, and carries no screenshot only when the finding has
\* none.
C24_PatchRequestCarriesEvidence ==
    \A p \in Procs :
        LET pr == proc[p] IN
        pr.phase = "review"
            => \A k \in 1..Len(pr.requests) :
                   /\ pr.requests[k].review_change_request
                          = pr.blocking[k].issue_resolution
                   /\ pr.requests[k].issue_screenshots
                          = pr.blocking[k].issue_screenshot_path

\* C26: a review that has parsed its agent's output ends non-zero exactly
\* when the outcome holds a blocker and either --skip-resolution is set or a
\* patch failed, and otherwise ends completed with exit 0; without a blocker
\* it makes no patch call and completes, whatever the other findings and the
\* payload's success flag.
C26_AbortOnlyOnBlockers ==
    \A p \in Procs :
        LET pr == proc[p]
            n == Cardinality(Blockers(pr.issues))
        IN (pr.phase = "review" /\ pr.parsed)
            => /\ pr.pc \in {"resolve", "exited"}
               /\ (pr.pc = "resolve" => (n >= 1 /\ ~pr.skip_resolution))
               /\ (pr.pc = "exited" =>
                      /\ (pr.rc # 0) <=>
                             (n >= 1 /\ (pr.skip_resolution \/ PatchFailed(pr)))
                      /\ (pr.rc = 0) <=> (pr.completed /\ pr.saves = 1))
               /\ pr.patches <= n
               /\ (n = 0 => (pr.patches = 0 /\ pr.pc = "exited" /\ pr.rc = 0))

\* a review whose payload says success = false and holds findings, none of
\* them a blocker, has completed
C26_Witness ==
    \E p \in Procs :
        /\ proc[p].phase = "review" /\ proc[p].parsed
        /\ ~proc[p].payload_success
        /\ proc[p].issues # <<>>
        /\ Blockers(proc[p].issues) = {}
        /\ proc[p].completed

\* C25: whatever the interleaving of the scripts of several runs, a step
\* that changes the persisted state of a run is a step of a script invoked
\* for that run, and the state a script holds in memory is the one of its own
\* run.
C25_OnlyOwnRunWritten ==
    [][/\ \A r \in Runs :
              store'[r] # store[r]
                  => \E p \in Procs :
                         /\ proc[p].run = r /\ Running(p)
                         /\ proc'[p] # proc[p]
                         /\ \A q \in Procs \ {p} : proc'[q] = proc[q]
       /\ \A p \in Procs :
              proc'[p].st # Absent => proc'[p].st[1].adw_id = proc'[p].run
      ]_vars

\* a script has saved the state of its run while a script of another run,
\* which has a persisted state too, was between its load and its exit
C25_Witness ==
    \E p \in Procs, q \in Procs :
        /\ proc[p].run # "" /\ proc[q].run # ""
        /\ proc[p].run # proc[q].run
        /\ proc[p].phase = "build" /\ proc[p].completed
        /\ Running(q) /\ proc[q].st # Absent
        /\ store[proc[q].run] # Absent

\* the phase_history a script found when it loaded the state of its run
LoadedHistory(pr) ==
    SubSeq(pr.st[1].phase_history, 1, Len(pr.st[1].phase_history) - pr.saves)

\* C27: when two scripts that ran on the same run with overlapping
\* load-to-save windows (both loaded the state before either saved) have both
\* completed, the persisted state holds what they loaded extended by the
\* labels of both.
C27_ConcurrentSavesBothKept ==
    \A p \in Procs, q \in Procs :
        (/\ p # q
         /\ proc[p].pc = "exited" /\ proc[p].completed
         /\ proc[q].pc = "exited" /\ proc[q].completed
         /\ proc[p].run = proc[q].run
         /\ LoadedHistory(proc[p]) = LoadedHistory(proc[q]))
            => /\ Label(proc[p].phase) \in Range(HistoryOf(store[proc[p].run]))
               /\ Label(proc[q].phase) \in Range(HistoryOf(store[proc[p].run]))
               /\ Len(HistoryOf(store[proc[p].run]))
                      = Len(LoadedHistory(proc[p])) + proc[p].saves + proc[q].saves

====
